---- MODULE Spec2Model ----
(***************************************************************************)
(* hpcmp: the LZW-family decompressor of src/src/main.rs.                  *)
(*                                                                         *)
(* The state is that of one call of decompress(): the Reader (bit_buffer,  *)
(* available, read_width), the locals of decompress (dictionary, prev,     *)
(* prev_data, prev_scratch_len, out, code, c, scratch), the position of    *)
(* the call (pc), the panic it ended with (err) and the value it returned  *)
(* (result).  The byte source is the environment: it hands the reader the  *)
(* bytes of the codes it chooses, or runs dry.                             *)
(***************************************************************************)
EXTENDS Integers, Sequences, FiniteSets, TLC

VARIABLES pc, err, reader, code, c, scratch, dictionary, prev, prev_data,
          prev_scratch_len, out, result, segment,
          script, nread, consumed, exhausted, taken

vars == <<pc, err, reader, code, c, scratch, dictionary, prev, prev_data,
          prev_scratch_len, out, result, segment,
          script, nread, consumed, exhausted, taken>>

(***************************************************************************)
(* Bounds of the model.                                                    *)
(***************************************************************************)
\* codes the source may choose freely when no script is played
MaxFree == 6
\* codes the source may choose freely after a script has been played
MaxTail == 3
\* number of consecutive KwK index codes of the ramp scripts
RampLen == 127
\* number of literal codes of the fill script
FillLen == 4098
\* number of widen commands of the widen script
WidenLen == 23
\* longest scratch the chain-following loop is followed to
MaxScratch == 140

(***************************************************************************)
(* Program constants.                                                      *)
(***************************************************************************)
\* 0x8: raw codes below it are commands
CommandLimit == 8
\* 0x108: raw codes from it on are dictionary indexes
IndexBase == 264
\* read_width of a new or reset Reader
StartWidth == 9
\* bits of the u32 bit_buffer
BufferBits == 32
\* 0x80: no insertion once the previous run was this long
RunLimit == 128
\* 0x1000: no insertion once the dictionary is this long
DictLimit == 4096

(***************************************************************************)
(* enum Code                                                               *)
(***************************************************************************)
Command(n) == [tag |-> "Command", n |-> n]
Value(b) == [tag |-> "Value", n |-> b]
Index(i) == [tag |-> "Index", n |-> i]

\* the value of a local that has not been assigned yet
NoCode == [tag |-> "None", n |-> 0]

\* from_u32 with the first index code taken for a literal (c > 0x108)
from_u32_late_index(raw) ==
    IF raw < CommandLimit THEN Command(raw % 256)
    ELSE IF raw > IndexBase THEN Index(raw - IndexBase)
    ELSE Value((raw - CommandLimit) % 256)

\* Code::from_u32
from_u32(raw) ==
    IF raw < CommandLimit THEN Command(raw % 256)
    ELSE IF raw > IndexBase - 1 THEN Index(raw - IndexBase)
    ELSE Value((raw - CommandLimit) % 256)

(***************************************************************************)
(* u32 values are sequences of BufferBits bits, least significant first.   *)
(***************************************************************************)
Bit(v, i) == IF i > 31 THEN 0 ELSE (v \div (2 ^ (i - 1))) % 2

BitsOf(v, n) == [i \in 1..n |-> Bit(v, i)]

RECURSIVE ValueOf(_)
ValueOf(bits) == IF bits = <<>> THEN 0 ELSE Head(bits) + 2 * ValueOf(Tail(bits))

Zeros(n) == [i \in 1..n |-> 0]

\* (buf[0] as u32) << k
ShlByte(b, k) ==
    [i \in 1..BufferBits |-> IF i > k /\ i <= k + 8 THEN Bit(b, i - k) ELSE 0]

\* x | y
BitOr(x, y) == [i \in 1..BufferBits |-> IF x[i] = 1 \/ y[i] = 1 THEN 1 ELSE 0]

\* x >> k
Shr(x, k) == [i \in 1..BufferBits |-> IF i + k <= BufferBits THEN x[i + k] ELSE 0]

\* x & ((1 << k) - 1)
LowBits(x, k) == ValueOf(SubSeq(x, 1, k))

(***************************************************************************)
(* struct Reader                                                           *)
(***************************************************************************)
\* Reader::new
ReaderNew == [bit_buffer |-> Zeros(BufferBits), available |-> 0, read_width |-> StartWidth]

\* TopUp that leaves the loop on an exhausted source instead of panicking
RECURSIVE TopUpNoPanic(_, _, _)
TopUpNoPanic(rd, bs, ovf) ==
    IF rd.available < rd.read_width /\ bs # <<>>
    THEN TopUpNoPanic([rd EXCEPT
                         !.bit_buffer = BitOr(@, ShlByte(Head(bs), rd.available % BufferBits)),
                         !.available = (@ + 8) % 256],
                      Tail(bs), ovf)
    ELSE [ok |-> TRUE, rd |-> rd, rest |-> bs, ovf |-> ovf]

\* The top-up loop of Reader::read over the bytes bs the source still holds.
\* ovf: a shift or an addition overflowed (a panic when overflow checks are
\* compiled in, wrapping otherwise).
RECURSIVE TopUp(_, _, _)
TopUp(rd, bs, ovf) ==
    IF rd.available < rd.read_width
    THEN IF bs = <<>>
         THEN [ok |-> FALSE, rd |-> rd, rest |-> bs, ovf |-> ovf]
         ELSE TopUp([rd EXCEPT
                       !.bit_buffer = BitOr(@, ShlByte(Head(bs), rd.available % BufferBits)),
                       !.available = (@ + 8) % 256],
                    Tail(bs),
                    ovf \/ rd.available >= BufferBits \/ rd.available + 8 > 255)
    ELSE [ok |-> TRUE, rd |-> rd, rest |-> bs, ovf |-> ovf]

\* Extract leaving the count of available bits as it was
ExtractKeepsCount(rd) ==
    LET sh == rd.read_width % BufferBits
    IN  [data |-> LowBits(rd.bit_buffer, sh),
         rd   |-> [rd EXCEPT !.bit_buffer = Shr(@, sh)],
         ovf  |-> rd.read_width >= BufferBits]

\* "Read n bits": data, and the reader after the shift and the subtraction.
Extract(rd) ==
    LET sh == rd.read_width % BufferBits
    IN  [data |-> LowBits(rd.bit_buffer, sh),
         rd   |-> [rd EXCEPT !.bit_buffer = Shr(@, sh),
                             !.available = @ - rd.read_width],
         ovf  |-> rd.read_width >= BufferBits]

\* ReaderEffect without the realignment of Command(3)
ReaderEffectNoRealign(cd, rd) ==
    IF cd = Command(1)
    THEN [rd EXCEPT !.bit_buffer = Zeros(BufferBits), !.available = 0,
                    !.read_width = StartWidth]
    ELSE IF cd = Command(2)
    THEN [rd EXCEPT !.read_width = (@ + 1) % 256]
    ELSE rd

\* ReaderEffect with Command(3) handled as the reset Command(1) is
ReaderEffectRealignResets(cd, rd) ==
    IF cd \in {Command(1), Command(3)}
    THEN [rd EXCEPT !.bit_buffer = Zeros(BufferBits), !.available = 0,
                    !.read_width = StartWidth]
    ELSE IF cd = Command(2)
    THEN [rd EXCEPT !.read_width = (@ + 1) % 256]
    ELSE rd

\* The match on the code just read: reset, increase code width, realign.
ReaderEffect(cd, rd) ==
    IF cd = Command(1)
    THEN [rd EXCEPT !.bit_buffer = Zeros(BufferBits), !.available = 0,
                    !.read_width = StartWidth]
    ELSE IF cd = Command(2)
    THEN [rd EXCEPT !.read_width = (@ + 1) % 256]
    ELSE IF cd = Command(3)
    THEN [rd EXCEPT !.bit_buffer = Zeros(BufferBits), !.available = 0]
    ELSE rd

\* Reader::read on a source that holds the bytes bs: the set of its outcomes.
\* kind "code": it returned; "truncated": panic!() on an exhausted source;
\* "overflow": the panic of an overflowing shift or addition, when the build
\* checks them.
read(rd, bs) ==
    LET t == TopUp(rd, bs, FALSE)
    IN  IF ~t.ok
        THEN {[kind |-> "truncated", code |-> NoCode, rd |-> t.rd, used |-> Len(bs)]}
        ELSE LET e  == Extract(t.rd)
                 cd == from_u32(e.data)
                 r2 == ReaderEffect(cd, e.rd)
                 used == Len(bs) - Len(t.rest)
                 ovf == t.ovf \/ e.ovf \/ (cd = Command(2) /\ e.rd.read_width + 1 > 255)
             IN  {[kind |-> "code", code |-> cd, rd |-> r2, used |-> used]}
                 \cup (IF ovf
                       THEN {[kind |-> "overflow", code |-> NoCode, rd |-> t.rd, used |-> used]}
                       ELSE {})

(***************************************************************************)
(* The state of one call of decompress() as a record, and back.            *)
(***************************************************************************)
St ==
    [pc |-> pc, err |-> err, reader |-> reader, code |-> code, c |-> c,
     scratch |-> scratch, dictionary |-> dictionary, prev |-> prev,
     prev_data |-> prev_data, prev_scratch_len |-> prev_scratch_len,
     out |-> out, result |-> result, segment |-> segment, script |-> script,
     nread |-> nread, consumed |-> consumed, exhausted |-> exhausted,
     taken |-> taken]

\* the state s is the current state
Is(s) ==
    /\ pc = s.pc
    /\ err = s.err
    /\ reader = s.reader
    /\ code = s.code
    /\ c = s.c
    /\ scratch = s.scratch
    /\ dictionary = s.dictionary
    /\ prev = s.prev
    /\ prev_data = s.prev_data
    /\ prev_scratch_len = s.prev_scratch_len
    /\ out = s.out
    /\ result = s.result
    /\ segment = s.segment
    /\ script = s.script
    /\ nread = s.nread
    /\ consumed = s.consumed
    /\ exhausted = s.exhausted
    /\ taken = s.taken

\* the state s is the next state
Becomes(s) ==
    /\ pc' = s.pc
    /\ err' = s.err
    /\ reader' = s.reader
    /\ code' = s.code
    /\ c' = s.c
    /\ scratch' = s.scratch
    /\ dictionary' = s.dictionary
    /\ prev' = s.prev
    /\ prev_data' = s.prev_data
    /\ prev_scratch_len' = s.prev_scratch_len
    /\ out' = s.out
    /\ result' = s.result
    /\ segment' = s.segment
    /\ script' = s.script
    /\ nread' = s.nread
    /\ consumed' = s.consumed
    /\ exhausted' = s.exhausted
    /\ taken' = s.taken

(***************************************************************************)
(* The byte source (stream: &mut impl std::io::Read).  It plays the codes  *)
(* of a script, then up to Budget codes of its choice, packed least        *)
(* significant bit first at the reader's width, and may run dry at any     *)
(* byte.                                                                   *)
(***************************************************************************)
Repeat(x, n) == [i \in 1..n |-> x]

ScriptCodes ==
    [none      |-> <<>>,
     badstart  |-> <<8>>,
     abc       |-> <<1, 73, 74, 3, 75>>,
     classes   |-> <<1, 73, 7, 4, 5, 6, 263, 264, 2, 7, 8, 263, 264, 265, 1023>>,
     widen     |-> <<1, 73>> \o Repeat(2, WidenLen),
     ramp      |-> <<1, 73>> \o [i \in 1..RampLen |-> IndexBase + i - 1],
     rampreset |-> <<1, 73>> \o [i \in 1..RampLen |-> IndexBase + i - 1] \o <<1, 73>>,
     fill      |-> <<1, 73, 2, 2, 2, 2>> \o Repeat(73, FillLen)]

Budget(s) == IF s.script = "none" THEN MaxFree ELSE MaxTail

\* the raw codes the source chooses among when the dictionary holds len entries
Menu(len) ==
    {0, 1, 2, 3, 73, 74} \cup {IndexBase + i : i \in {0, len - 1, len, len + 1} \cap Nat}

\* bits, bytes and spare bits of the last byte that complete the next code
Need(rd) == rd.read_width - rd.available

NBytes(rd) == (Need(rd) + 7) \div 8

Spare(rd) == 8 * NBytes(rd) - Need(rd)

\* raw code d can be the next code: it fits the width, and continues the bits
\* the reader already holds
Fits(rd, d) ==
    /\ rd.read_width < 31 => d < 2 ^ rd.read_width
    /\ BitsOf(d, rd.available) = SubSeq(rd.bit_buffer, 1, rd.available)

NextRaw(s) ==
    LET codes == ScriptCodes[s.script]
    IN  IF s.nread < Len(codes) THEN {codes[s.nread + 1]}
        ELSE IF s.nread < Len(codes) + Budget(s) THEN Menu(Len(s.dictionary))
        ELSE {}

\* the raw codes whose low bits may fill the last byte of code d
AfterRaw(s, d) ==
    LET codes == ScriptCodes[s.script]
    IN  IF d \in {1, 3} THEN {0}
        ELSE IF s.nread + 1 < Len(codes) THEN {codes[s.nread + 2]}
        ELSE IF s.nread + 1 < Len(codes) + Budget(s)
             THEN Menu(Len(s.dictionary)) \cup Menu(Len(s.dictionary) + 1)
        ELSE {0}

\* the bytes that complete code d in the reader, the spare bits taken from r
Pack(rd, d, r) ==
    LET bits == SubSeq(BitsOf(d, rd.read_width), rd.available + 1, rd.read_width)
                \o BitsOf(r, Spare(rd))
    IN  [j \in 1..NBytes(rd) |-> ValueOf(SubSeq(bits, 8 * j - 7, 8 * j))]

\* what the source can hold when read() is entered: the bytes of a next code,
\* or fewer (short: the source is exhausted before the code is complete)
Offers(s) ==
    {[bytes |-> <<>>, short |-> TRUE]}
    \cup UNION {{[bytes |-> SubSeq(Pack(s.reader, d, r), 1, j), short |-> j < NBytes(s.reader)] :
                    r \in AfterRaw(s, d), j \in 0..NBytes(s.reader)} :
                d \in {x \in NextRaw(s) : Fits(s.reader, x)}}

(***************************************************************************)
(* fn decompress                                                           *)
(***************************************************************************)
NoResult == [returned |-> FALSE, bytes |-> <<>>]

Returned(bytes) == [returned |-> TRUE, bytes |-> bytes]

\* the call of decompress() on the source playing the script name, at its
\* first read
Start(name) ==
    [pc |-> "AwaitStart", err |-> "None", reader |-> ReaderNew, code |-> NoCode,
     c |-> NoCode, scratch |-> <<>>, dictionary |-> <<>>, prev |-> NoCode,
     prev_data |-> 0, prev_scratch_len |-> 0, out |-> <<>>, result |-> NoResult,
     segment |-> 0, script |-> name, nread |-> 0, consumed |-> 0,
     exhausted |-> FALSE, taken |-> <<>>]

\* the panic of a read that did not return
ReadPanic(kind) == IF kind = "truncated" THEN "TruncatedStream" ELSE "ArithmeticOverflow"

\* the effect of one reader.read(stream) on the reader and the source
ReadStep(s, offer, r) ==
    [s EXCEPT !.reader = r.rd,
              !.consumed = @ + r.used,
              !.exhausted = offer.short,
              !.taken = SubSeq(offer.bytes, 1, r.used),
              !.nread = IF r.kind = "code" THEN @ + 1 ELSE @,
              !.code = IF r.kind = "code" THEN r.code ELSE @,
              !.err = IF r.kind = "code" THEN @ ELSE ReadPanic(r.kind)]

\* IsStartMarker that takes any command for the start marker
IsAnyCommand(cd) == cd.tag = "Command"

\* reader.read(stream) != Command(1)
IsStartMarker(cd) == cd = Command(1)

\* SegmentDictionary with the dictionary declared outside the outer loop
KeepDictionary(old) == old

\* let mut dictionary: Vec<DictionaryEntry> = vec![]; at the top of the outer
\* loop: the dictionary of the segment before (old) was dropped at the break
SegmentDictionary(old) == <<>>

\* IsLiteral that takes an index for a literal too
IsNotCommand(cd) == cd.tag # "Command"

\* if let Value(data) = code
IsLiteral(cd) == cd.tag = "Value"

\* if reader.read(stream) != Command(1) { panic!("Start marker not found.") }
StartStep(s, offer, r) ==
    LET s1 == ReadStep(s, offer, r)
    IN  IF r.kind # "code" THEN s1
        ELSE IF ~IsStartMarker(r.code) THEN [s1 EXCEPT !.err = "MissingStartMarker"]
        ELSE [s1 EXCEPT !.pc = "AwaitFirstLiteral",
                        !.dictionary = SegmentDictionary(@),
                        !.segment = @ + 1]

\* the first read of a segment: if let Value(data) = code { out.push(data);
\* prev_data = data; } else { panic!("First byte not Value") }  prev = code;
FirstLiteralStep(s, offer, r) ==
    LET s1 == ReadStep(s, offer, r)
    IN  IF r.kind # "code" THEN s1
        ELSE IF ~IsLiteral(r.code) THEN [s1 EXCEPT !.err = "ExpectedLiteral"]
        ELSE [s1 EXCEPT !.out = Append(@, r.code.n),
                        !.prev_data = r.code.n,
                        !.prev = r.code,
                        !.pc = "Streaming"]

\* ShouldInsert without the test of the dictionary length
ShouldInsertNoCap(run_len, dict_len) == run_len < RunLimit

\* ShouldInsert still inserting after a run of exactly 0x80 bytes
ShouldInsertOffByOne(run_len, dict_len) ==
    run_len <= RunLimit /\ dict_len # DictLimit

\* if prev_scratch_len < 0x80 && dictionary.len() != 0x1000
ShouldInsert(run_len, dict_len) == run_len < RunLimit /\ dict_len # DictLimit

\* NewEntry linking the entry to its own byte instead of prev
NewEntryOwnByte(d, nxt, seg) == [value |-> d, next |-> Value(d), seg |-> seg]

\* DictionaryEntry{ value: d, next: prev }; seg records the segment of the push
NewEntry(d, nxt, seg) == [value |-> d, next |-> nxt, seg |-> seg]

\* the KwK substitution: if let Index(p) = c { if p == dictionary.len() {
\* scratch.insert(0, prev_data); c = prev; } }
Substitute(cd, dict_len, pv, pv_data) ==
    IF cd.tag = "Index" /\ cd.n = dict_len
    THEN [c |-> pv, scratch |-> <<pv_data>>]
    ELSE [c |-> cd, scratch |-> <<>>]

\* after the while loop: if let Value(d) = c { .. } else { panic!("Index to
\* non-Value") }, then the bookkeeping up to prev = code
Finish(s, c0, s0) ==
    IF c0.tag = "Value"
    THEN LET run == <<c0.n>> \o s0
         IN  [s EXCEPT !.prev_data = c0.n,
                       !.dictionary =
                           IF ShouldInsert(s.prev_scratch_len, Len(s.dictionary))
                           THEN Append(@, NewEntry(c0.n, s.prev, s.segment))
                           ELSE @,
                       !.prev_scratch_len = Len(run),
                       !.out = @ \o run,
                       !.prev = s.code,
                       !.pc = "Streaming",
                       !.c = NoCode,
                       !.scratch = <<>>]
    ELSE [s EXCEPT !.err = "CorruptChain", !.c = c0, !.scratch = s0,
                   !.pc = "Resolving"]

\* the test of the while loop: another iteration, or on to the base case
Continue(s, c0, s0) ==
    IF c0.tag = "Index"
    THEN [s EXCEPT !.pc = "Resolving", !.c = c0, !.scratch = s0]
    ELSE Finish(s, c0, s0)

\* StreamingStep with the commands other than 1 and 3 resolved like codes
StreamingStepResolvesCommands(s, offer, r) ==
    LET s1 == ReadStep(s, offer, r)
    IN  IF r.kind # "code" THEN s1
        ELSE IF r.code = Command(1)
        THEN [s1 EXCEPT !.pc = "AwaitFirstLiteral",
                        !.dictionary = SegmentDictionary(@),
                        !.segment = @ + 1]
        ELSE IF r.code = Command(3) THEN [s1 EXCEPT !.pc = "AwaitFinalLiteral"]
        ELSE LET k == Substitute(r.code, Len(s.dictionary), s.prev, s.prev_data)
             IN  Continue(s1, k.c, k.scratch)

\* StreamingStep with prev = code executed for the ignored commands too
StreamingStepPrevAlways(s, offer, r) ==
    LET s1 == ReadStep(s, offer, r)
    IN  IF r.kind # "code" THEN s1
        ELSE IF r.code = Command(1)
        THEN [s1 EXCEPT !.pc = "AwaitFirstLiteral",
                        !.dictionary = SegmentDictionary(@),
                        !.segment = @ + 1]
        ELSE IF r.code = Command(3) THEN [s1 EXCEPT !.pc = "AwaitFinalLiteral"]
        ELSE IF r.code.tag = "Command" THEN [s1 EXCEPT !.prev = r.code]
        ELSE LET k == Substitute(r.code, Len(s.dictionary), s.prev, s.prev_data)
             IN  Continue(s1, k.c, k.scratch)

\* one read of the inner loop and the match on its code
StreamingStep(s, offer, r) ==
    LET s1 == ReadStep(s, offer, r)
    IN  IF r.kind # "code" THEN s1
        ELSE IF r.code = Command(1)
        THEN [s1 EXCEPT !.pc = "AwaitFirstLiteral",
                        !.dictionary = SegmentDictionary(@),
                        !.segment = @ + 1]
        ELSE IF r.code = Command(3) THEN [s1 EXCEPT !.pc = "AwaitFinalLiteral"]
        ELSE IF r.code.tag = "Command" THEN s1
        ELSE LET k == Substitute(r.code, Len(s.dictionary), s.prev, s.prev_data)
             IN  Continue(s1, k.c, k.scratch)

\* one iteration of: while let Index(p) = c { scratch.insert(0,
\* dictionary[p].value); c = dictionary[p].next; }
ChainStep(s) ==
    IF s.c.n >= Len(s.dictionary)
    THEN [s EXCEPT !.err = "IndexOutOfBounds"]
    ELSE Continue(s, s.dictionary[s.c.n + 1].next,
                  <<s.dictionary[s.c.n + 1].value>> \o s.scratch)

\* End of file: if let Value(last) = reader.read(stream) { out.push(last);
\* return out; } else { panic!("Final byte not Value") }
FinalLiteralStep(s, offer, r) ==
    LET s1 == ReadStep(s, offer, r)
    IN  IF r.kind # "code" THEN s1
        ELSE IF ~IsLiteral(r.code) THEN [s1 EXCEPT !.err = "ExpectedFinalLiteral"]
        ELSE [s1 EXCEPT !.out = Append(@, r.code.n),
                        !.result = Returned(Append(s.out, r.code.n)),
                        !.pc = "Terminated"]

ReadStart ==
    /\ pc = "AwaitStart" /\ err = "None"
    /\ \E offer \in Offers(St) : \E r \in read(reader, offer.bytes) :
          Becomes(StartStep(St, offer, r))

ReadFirstLiteral ==
    /\ pc = "AwaitFirstLiteral" /\ err = "None"
    /\ \E offer \in Offers(St) : \E r \in read(reader, offer.bytes) :
          Becomes(FirstLiteralStep(St, offer, r))

ReadStreaming ==
    /\ pc = "Streaming" /\ err = "None"
    /\ \E offer \in Offers(St) : \E r \in read(reader, offer.bytes) :
          Becomes(StreamingStep(St, offer, r))

ChainFollow ==
    /\ pc = "Resolving" /\ err = "None"
    /\ c.tag = "Index"
    /\ Len(scratch) < MaxScratch
    /\ Becomes(ChainStep(St))

ReadFinalLiteral ==
    /\ pc = "AwaitFinalLiteral" /\ err = "None"
    /\ \E offer \in Offers(St) : \E r \in read(reader, offer.bytes) :
          Becomes(FinalLiteralStep(St, offer, r))

Next ==
    \/ ReadStart
    \/ ReadFirstLiteral
    \/ ReadStreaming
    \/ ChainFollow
    \/ ReadFinalLiteral

Init == \E name \in {"none", "badstart", "abc", "classes", "widen"} : Is(Start(name))

Spec == Init /\ [][Next]_vars

(***************************************************************************)
(* Long scripts.  Played(name) is the state of the call after all codes    *)
(* but the last of the script were read and processed, computed with the   *)
(* steps above; SpecScripts plays the scripts step by step and              *)
(* PlayedIsReached says that it passes through these states.               *)
(***************************************************************************)
\* the whole bytes of the next code of the script, and the read that takes them
PlayRead(s) ==
    LET d == ScriptCodes[s.script][s.nread + 1]
        r == CHOOSE x \in AfterRaw(s, d) : TRUE
        offer == [bytes |-> Pack(s.reader, d, r), short |-> FALSE]
        got == CHOOSE x \in read(s.reader, offer.bytes) : x.kind = "code"
    IN  IF s.pc = "AwaitStart" THEN StartStep(s, offer, got)
        ELSE IF s.pc = "AwaitFirstLiteral" THEN FirstLiteralStep(s, offer, got)
        ELSE IF s.pc = "Streaming" THEN StreamingStep(s, offer, got)
        ELSE FinalLiteralStep(s, offer, got)

\* the while loop, to its end
RECURSIVE Resolve(_)
Resolve(s) ==
    IF s.pc = "Resolving" /\ s.err = "None" THEN Resolve(ChainStep(s)) ELSE s

\* n codes of the script, read and processed from state s on
RECURSIVE Play(_, _)
Play(s, n) ==
    IF n = 0 \/ s.err # "None" THEN s
    ELSE IF n = 1 THEN Resolve(PlayRead(s))
    ELSE LET half == Play(s, n \div 2)
         IN  IF half.err # "None" THEN half ELSE Play(half, n - n \div 2)

Played(name) == Play(Start(name), Len(ScriptCodes[name]) - 1)

PlayedRamp == Played("ramp")

PlayedRampReset == Played("rampreset")

PlayedFill == Played("fill")

\* runs that have grown to RunLimit bytes
InitRamp == \E s \in {Start("abc"), PlayedRamp, PlayedRampReset} : Is(s)

SpecRamp == InitRamp /\ [][Next]_vars

\* a dictionary that has grown to DictLimit entries
InitFill == \E s \in {Start("abc"), PlayedFill} : Is(s)

SpecFill == InitFill /\ [][Next]_vars

\* the long scripts, step by step from the first read
InitScripts == \E name \in {"ramp", "rampreset", "fill"} : Is(Start(name))

SpecScripts == InitScripts /\ [][Next]_vars

PlayedIsReached ==
    (/\ nread = Len(ScriptCodes[script]) - 1
     /\ err = "None"
     /\ pc # "Resolving") =>
        St = (IF script = "ramp" THEN PlayedRamp
              ELSE IF script = "rampreset" THEN PlayedRampReset
              ELSE PlayedFill)

(***************************************************************************)
(* Claims.                                                                 *)
(***************************************************************************)
\* C1: the stream Command(1), Value('A'), Value('B'), Command(3), Value('C'),
\* packed at 9 bits with the realignments after Command(1) and Command(3), is
\* decoded code by code to the output A, B, C: after its fifth code the call
\* has returned exactly <<65, 66, 67>>, having consumed the 8 bytes of the
\* stream and read no sixth code; it fails only if the source is cut short.
C1_AbcDecodes ==
    script = "abc" =>
        /\ nread <= 5
        /\ err \in {"None", "TruncatedStream"}
        /\ err = "TruncatedStream" => exhausted /\ nread < 5
        /\ result.returned <=> (nread = 5)
        /\ (err = "None" /\ nread = 1) =>
              /\ pc = "AwaitFirstLiteral" /\ code = Command(1) /\ out = <<>>
              /\ consumed = 2 /\ reader.available = 0
        /\ (err = "None" /\ nread = 2) =>
              /\ pc = "Streaming" /\ code = Value(65) /\ out = <<65>>
              /\ consumed = 4
        /\ (err = "None" /\ nread = 3) =>
              /\ pc = "Streaming" /\ code = Value(66) /\ out = <<65, 66>>
              /\ consumed = 5
        /\ (err = "None" /\ nread = 4) =>
              /\ pc = "AwaitFinalLiteral" /\ code = Command(3) /\ out = <<65, 66>>
              /\ consumed = 6 /\ reader.available = 0
        /\ nread = 5 =>
              /\ pc = "Terminated" /\ err = "None" /\ code = Value(67)
              /\ out = <<65, 66, 67>> /\ result = Returned(<<65, 66, 67>>)
              /\ consumed = 8

C1_Witness ==
    script = "abc" /\ pc = "Terminated" /\ result = Returned(<<65, 66, 67>>)

\* C2: the call returns only by reading Command(3) in the inner loop and then
\* a Value(last) as the very next code; what it returns is the output with
\* last appended; a call that panicked has returned nothing.
C2_ReturnOnlyAfterEnd ==
    [][/\ (pc' = "AwaitFinalLiteral" /\ pc # "AwaitFinalLiteral") =>
              pc = "Streaming" /\ code' = Command(3) /\ nread' = nread + 1
       /\ (pc' = "Terminated" /\ pc # "Terminated") =>
              /\ pc = "AwaitFinalLiteral" /\ code = Command(3)
              /\ nread' = nread + 1
              /\ code'.tag = "Value"
              /\ out' = Append(out, code'.n)
              /\ result' = Returned(out')
              /\ err' = "None"
       /\ result'.returned => pc' = "Terminated"
       /\ pc' # "Terminated" => result' = NoResult
       /\ err' # "None" => result' = NoResult /\ pc' # "Terminated"
      ]_vars

C2_Witness ==
    /\ script = "none" /\ pc = "Terminated" /\ result.returned
    /\ Len(result.bytes) > 2

\* C3: a first code that is not Command(1) fails with MissingStartMarker, with
\* the 2 bytes of that one 9-bit code consumed and nothing appended to the
\* output; a first code Command(1) does not.
C3_MissingStartMarker ==
    [][(pc = "AwaitStart" /\ nread' = nread + 1) =>
          IF code' = Command(1)
          THEN err' = "None" /\ pc' = "AwaitFirstLiteral"
          ELSE /\ err' = "MissingStartMarker"
               /\ consumed' = 2 /\ nread' = 1
               /\ out' = <<>> /\ result' = NoResult
      ]_vars

C3_Witness ==
    /\ err = "MissingStartMarker" /\ code = Value(0)
    /\ consumed = 2 /\ out = <<>>

\* C4: a read that finds the source exhausted before its code is complete
\* fails with TruncatedStream, wherever the decoder stands, and the call then
\* returns nothing; TruncatedStream has no other cause.  A source of one byte
\* is such a case.
C4_TruncatedStream ==
    /\ exhausted => err = "TruncatedStream" /\ result = NoResult /\ pc # "Terminated"
    /\ err = "TruncatedStream" => exhausted
    /\ (exhausted /\ consumed = 1) => nread = 0 /\ pc = "AwaitStart"

C4_Witness ==
    /\ exhausted /\ consumed = 1 /\ err = "TruncatedStream"
    /\ reader.read_width = 9

\* C5: when a segment begins its dictionary is empty, and every entry the
\* dictionary holds, so every entry a code can resolve through, was inserted
\* in the current segment.
C5_SegmentIsolation ==
    /\ pc \in {"AwaitStart", "AwaitFirstLiteral"} => dictionary = <<>>
    /\ \A i \in DOMAIN dictionary : dictionary[i].seg = segment

C5_Witness ==
    /\ script = "rampreset" /\ segment = 2 /\ pc = "Resolving"
    /\ c.tag = "Index" /\ c.n < Len(dictionary)

\* C6: the dictionary never holds more than 0x1000 entries.
C6_GrowthCap == Len(dictionary) <= DictLimit

C6_Witness ==
    /\ Len(dictionary) = DictLimit /\ prev_scratch_len < RunLimit
    /\ pc = "Streaming" /\ err = "None"
    /\ nread = Len(ScriptCodes.fill)

\* the reader after the top-up and the extraction of a read that took the
\* bytes bs
Extracted(rd, bs) == Extract(TopUp(rd, bs, FALSE).rd).rd

\* C7: a read that returns Command(2) adds exactly one to read_width, one that
\* returns Command(1) sets it to 9 and clears the buffer, one that returns
\* Command(3) clears the buffer and keeps the width, and any other code leaves
\* the reader as it was after the extraction; so the width never decreases
\* but at a reset.
C7_WidthMonotonic ==
    [][nread' = nread + 1 =>
          LET e == Extracted(reader, taken')
          IN  /\ code' # Command(1) => reader'.read_width >= reader.read_width
              /\ reader'.read_width # reader.read_width =>
                    code' \in {Command(1), Command(2)}
              /\ code' = Command(1) => reader' = ReaderNew
              /\ code' = Command(2) =>
                    reader' = [e EXCEPT !.read_width = reader.read_width + 1]
              /\ code' = Command(3) =>
                    reader' = [bit_buffer |-> Zeros(BufferBits), available |-> 0,
                               read_width |-> reader.read_width]
              /\ code' \notin {Command(1), Command(2), Command(3)} => reader' = e
      ]_vars

C7_Witness ==
    /\ code = Command(3) /\ reader.read_width = 10 /\ reader.available = 0
    /\ pc = "AwaitFinalLiteral"

\* the run that was emitted for prev
PrevRun ==
    IF prev.tag = "Value" THEN <<prev.n>>
    ELSE SubSeq(out, Len(out) - prev_scratch_len + 1, Len(out))

\* C8: a code Index(p) with p the dictionary length is resolved without an
\* out-of-range lookup, and the run appended for it is the run emitted for
\* prev followed by prev_literal, one byte longer than that run.
C8_KwKResolution ==
    [][(/\ code'.tag = "Index" /\ code'.n = Len(dictionary)
        /\ \/ pc = "Resolving"
           \/ pc = "Streaming" /\ nread' = nread + 1) =>
          /\ err' # "IndexOutOfBounds"
          /\ pc' = "Streaming" =>
                /\ out' = out \o PrevRun \o <<prev_data>>
                /\ prev_scratch_len' = Len(PrevRun) + 1
      ]_vars

\* C9: the chain-following loop terminates.  A loop that terminates follows
\* no entry twice, so it prepends at most as many values as the dictionary
\* has entries to a scratch that held at most prev_literal.
C9_ChainTerminates ==
    pc = "Resolving" => Len(scratch) <= Len(dictionary) + 1

\* C10: when resolution stands at an index that is not below the dictionary
\* length, the decode fails with CorruptChain.
C10_OutOfRangeIsCorruptChain ==
    [][(/\ pc = "Resolving" /\ err = "None"
        /\ c.tag = "Index" /\ c.n >= Len(dictionary)) =>
          err' = "CorruptChain"
      ]_vars

\* the raw code that a read taking the bytes bs extracts
DataOf(rd, bs) == Extract(TopUp(rd, bs, FALSE).rd).data

\* C11: whatever the width, a read classifies the raw code c it extracted by
\* its range alone: Command(c) if c < 8, Index(c - 0x108) if c > 0x107,
\* Value(c - 8) otherwise; every raw code falls in exactly one class.
C11_Classification ==
    [][nread' = nread + 1 =>
          LET raw == DataOf(reader, taken')
          IN  /\ code'.tag \in {"Command", "Value", "Index"}
              /\ (code'.tag = "Command") <=> (raw < 8)
              /\ (code'.tag = "Index") <=> (raw > 263)
              /\ (code'.tag = "Value") <=> (raw >= 8 /\ raw <= 263)
              /\ raw < 8 => code' = Command(raw)
              /\ raw > 263 => code' = Index(raw - 264)
              /\ (raw >= 8 /\ raw <= 263) => code' = Value(raw - 8)
      ]_vars

C11_Witness ==
    /\ script = "classes" /\ reader.read_width = 10
    /\ code = Index(0) /\ taken # <<>> /\ err = "None"

\* C12: the first literal Value(d) of every segment, the first one and each
\* one after a Reset, leaves prev = Value(d), prev_literal = d and
\* prev_run_len = 0, whatever the last run of the segment before was.
C12_SegmentStartState ==
    [][(pc = "AwaitFirstLiteral" /\ pc' = "Streaming") =>
          /\ code'.tag = "Value"
          /\ prev' = code'
          /\ prev_data' = code'.n
          /\ prev_scratch_len' = 0
      ]_vars

\* C13 as stated: decoding Command(1), Value('A'), Value('B'), Command(3),
\* Value('C') triggers no insertion, the dictionary is empty in every state
\* of the run, also after Value('B') has been processed.
C13_NoInsertion == script = "abc" => dictionary = <<>>

\* C13: decoding Command(1), Value('A'), Value('B'), Command(3), Value('C')
\* triggers exactly one insertion: the dictionary is empty until Value('B')
\* has been processed and from then on holds the single entry
\* {value: 'B', next: Value('A')}; no index code appears in the run.
C13_OneInsertion ==
    (script = "abc" /\ nread <= Len(ScriptCodes["abc"])) =>
        /\ code.tag # "Index"
        /\ nread <= 2 => dictionary = <<>>
        /\ nread >= 3 =>
              /\ Len(dictionary) = 1
              /\ dictionary[1].value = 66
              /\ dictionary[1].next = Value(65)

C13_Witness ==
    /\ script = "abc" /\ nread = 5 /\ pc = "Terminated"
    /\ result = Returned(<<65, 66, 67>>) /\ Len(dictionary) = 1

\* inputs of both kinds: runs of 0x80 bytes and a dictionary of 0x1000 entries
InitLong ==
    \E s \in {Start("abc"), PlayedRamp, PlayedRampReset, PlayedFill} : Is(s)

SpecLong == InitLong /\ [][Next]_vars

\* the step finishes the resolution of the code read last
Resolved ==
    /\ err' = "None" /\ pc' = "Streaming"
    /\ \/ pc = "Resolving"
       \/ pc = "Streaming" /\ nread' = nread + 1 /\ code'.tag # "Command"

\* the bytes the step appended to the output
RunOf(before, after) == SubSeq(after, Len(before) + 1, Len(after))

\* C14: each Value or Index code resolved in the streaming loop appends
\* exactly one entry {value: first byte of its run, next: prev before the
\* code} iff prev_run_len < 0x80 and the dictionary length is not 0x1000,
\* and leaves the dictionary unchanged otherwise; the older entries keep
\* index and contents; afterwards prev is the code, prev_literal the first
\* byte of its run and prev_run_len the length of its run.
C14_GrowthPolicy ==
    [][Resolved =>
          LET run == RunOf(out, out')
              len == Len(dictionary)
          IN  /\ run # <<>>
              /\ IF prev_scratch_len < 128 /\ len # 4096
                 THEN /\ Len(dictionary') = len + 1
                      /\ SubSeq(dictionary', 1, len) = dictionary
                      /\ dictionary'[len + 1].value = run[1]
                      /\ dictionary'[len + 1].next = prev
                 ELSE dictionary' = dictionary
              /\ prev' = code'
              /\ prev_data' = run[1]
              /\ prev_scratch_len' = Len(run)
      ]_vars

\* a code resolved without an insertion, after a run of 0x80 bytes
C14_Witness ==
    /\ script = "ramp" /\ nread = Len(ScriptCodes["ramp"]) + 1
    /\ pc = "Streaming" /\ err = "None" /\ code.tag = "Index"
    /\ Len(dictionary) = RampLen /\ Len(dictionary) < DictLimit

\* C15: the chains of the dictionary are acyclic: every entry at index n
\* whose next is Index(p) has p < n, so following next strictly decreases
\* the index; for any input, of one segment or of several.
C15_ChainsAcyclic ==
    \A i \in 1..Len(dictionary) :
        dictionary[i].next.tag = "Index" => dictionary[i].next.n < i - 1

\* C18: in every streaming state, if prev is Index(p) then p is less than
\* the length of the dictionary, also after a KwK code that was processed
\* while the insertion condition was false.
C18_PrevInRange ==
    (pc = "Streaming" /\ err = "None" /\ prev.tag = "Index") =>
        prev.n < Len(dictionary)

\* C16: after every read that returns, fewer bits are available than the
\* code width, in fact fewer than 8, whatever codes came before (Widen,
\* Reset and Realign included); the read takes bytes only while fewer than
\* code_width bits are available and then consumes exactly code_width bits:
\* the count is the old count plus 8 per byte taken minus the width, or 0
\* after a Reset or a Realign.
C16_AvailableBelowWidth ==
    [][nread' = nread + 1 =>
          LET got == reader.available + 8 * Len(taken')
          IN  /\ reader'.available < 8
              /\ reader'.available < reader'.read_width
              /\ got >= reader.read_width
              /\ taken' # <<>> => got - 8 < reader.read_width
              /\ reader'.available =
                     IF code' \in {Command(1), Command(3)} THEN 0
                     ELSE got - reader.read_width
      ]_vars

\* a read at a widened width that left bits in the buffer
C16_Witness ==
    /\ nread >= 4 /\ err = "None" /\ code.tag = "Index"
    /\ reader.read_width = 11 /\ reader.available = 7

\* C17: a Command(n) with n other than 1 and 3 (0, 2, 4, 5, 6, 7) read in
\* the streaming loop leaves the output, the dictionary, prev, prev_literal
\* and prev_run_len unchanged, and the decoder stays in the streaming loop.
C17_OtherCommandsIgnored ==
    [][(/\ pc = "Streaming" /\ nread' = nread + 1
        /\ code'.tag = "Command" /\ code'.n \notin {1, 3}) =>
          /\ pc' = "Streaming" /\ err' = "None" /\ result' = result
          /\ UNCHANGED <<out, dictionary, prev, prev_data, prev_scratch_len>>
      ]_vars

\* Command(6) read in the streaming loop, after 7, 4 and 5
C17_Witness ==
    /\ script = "classes" /\ nread = 6 /\ code = Command(6)
    /\ pc = "Streaming" /\ prev = Value(65) /\ out = <<65>>

\* C19: prev is never a Command and no entry's next is ever a Command: both
\* are Value or Index codes; a chain in resolution stands at an Index and
\* bottoms out only at a Value, so the failure 'Index to non-Value'
\* (CorruptChain) is never reached.
C19_NoCommandInChains ==
    /\ prev.tag # "Command"
    /\ pc \in {"Streaming", "Resolving", "AwaitFinalLiteral"} =>
           prev.tag \in {"Value", "Index"}
    /\ \A i \in 1..Len(dictionary) :
           dictionary[i].next.tag \in {"Value", "Index"}
    /\ pc = "Resolving" => c.tag = "Index"
    /\ err # "CorruptChain"

\* a chain followed through every entry of the dictionary down to a Value
C19_Witness ==
    /\ script = "ramp" /\ nread = Len(ScriptCodes["ramp"])
    /\ pc = "Streaming" /\ err = "None" /\ code = Index(RampLen - 1)
    /\ prev_scratch_len = RampLen + 1 /\ Len(dictionary) = RampLen

\* the raw code that classifies as cd
RawOf(cd) ==
    IF cd.tag = "Command" THEN cd.n
    ELSE IF cd.tag = "Value" THEN cd.n + CommandLimit
    ELSE cd.n + IndexBase

RECURSIVE BytesBits(_)
\* the bits of the bytes bs in stream order, each byte least significant first
BytesBits(bs) ==
    IF bs = <<>> THEN <<>> ELSE BitsOf(Head(bs), 8) \o BytesBits(Tail(bs))

\* the bits of the stream not yet given out as a code, once bs has been taken
Pending(rd, bs) == SubSeq(rd.bit_buffer, 1, rd.available) \o BytesBits(bs)

\* C20: at every width reachable through Widen a read loses no input bit
\* and performs no overflowing shift or arithmetic: the code it returns is
\* the next code_width bits of the byte stream, least significant first,
\* and the buffer afterwards holds exactly the bits taken and not yet
\* consumed, with nothing above them.
C20_NoBitLost ==
    [][/\ (err = "None" => err' # "ArithmeticOverflow")
       /\ nread' = nread + 1 =>
             LET bits == Pending(reader, taken')
                 w    == reader.read_width
             IN  /\ Len(bits) >= w
                 /\ RawOf(code') = ValueOf(SubSeq(bits, 1, w))
                 /\ code' \notin {Command(1), Command(3)} =>
                        \A i \in 1..BufferBits :
                            reader'.bit_buffer[i] =
                                IF w + i <= Len(bits) THEN bits[w + i] ELSE 0
      ]_vars

====
